---- MODULE Spec2Model ----
(***************************************************************************)
(* Self-avoiding random walks of mbuild: HardSphereRandomWalk.generate     *)
(* (mbuild/path.py) and random_walk (mbuild/conformations.py).             *)
(*                                                                         *)
(* Geometry is discretised on the cubic lattice.  Coordinates are integer  *)
(* 3-vectors, lengths are integers, and angles are counted in quarter      *)
(* turns (0 = 0, 1 = pi/2, 2 = pi, 3 = 3pi/2), for which sin and cos are   *)
(* integers.  The samplers are computed as the code computes them, on      *)
(* random draws restricted to this grid.                                   *)
(*                                                                         *)
(* numpy's process-wide generator is the variable rng = (seed, pos): the   *)
(* seed it was last seeded with and the number of draws made since.  The   *)
(* generator is an arbitrary deterministic function of (seed, pos): tape   *)
(* records, per seed, the raw outputs revealed so far; a draw at a         *)
(* position already revealed returns the recorded value.                   *)
(***************************************************************************)
EXTENDS Integers, Sequences, FiniteSets, TLC

\* walk: the calls in progress, by caller; rng, tape: the process-wide generator;
\* prev: the finished calls a caller repeats; others: the number of uses of
\* the generator by other code of the process; tree: the PeriodicKDTree object
\* and the outcome of the last operation on it; widget: the Visualize object
\* with the particle names of its compound.
VARIABLES walk, rng, tape, prev, others, tree, widget

vars == <<walk, rng, tape, prev, others, tree, widget>>

(* ------------------------------ bounds -------------------------------- *)
MaxN == 4
MaxAttempts == 2
MaxOthers == 1

BondLengths == {1, 2}
Radii == {1, 2}
Tolerances == {0, 1}
Angles == 0..2
Seeds == {1, 2}

(* ----------------------------- vectors -------------------------------- *)
Zeros3 == <<0, 0, 0>>

VAdd(a, b) == <<a[1] + b[1], a[2] + b[2], a[3] + b[3]>>

VSub(a, b) == <<a[1] - b[1], a[2] - b[2], a[3] - b[3]>>

VScale(k, a) == <<k * a[1], k * a[2], k * a[3]>>

Dot(a, b) == a[1] * b[1] + a[2] * b[2] + a[3] * b[3]

Abs(x) == IF x < 0 THEN -x ELSE x

\* np.linalg.norm on lattice vectors whose length is an integer
Norm(a) == CHOOSE n \in 0..(Abs(a[1]) + Abs(a[2]) + Abs(a[3])) : n * n = Dot(a, a)

\* v / np.linalg.norm(v)
VDivNorm(a) == <<a[1] \div Norm(a), a[2] \div Norm(a), a[3] \div Norm(a)>>

\* np.cos, np.sin on quarter turns
Cos(q) == CASE q % 4 = 0 -> 1 [] q % 4 = 1 -> 0 [] q % 4 = 2 -> -1 [] OTHER -> 0

Sin(q) == CASE q % 4 = 0 -> 0 [] q % 4 = 1 -> 1 [] q % 4 = 2 -> 0 [] OTHER -> -1

Dist2(a, b) == Dot(VSub(a, b), VSub(a, b))

(* ------------------------ the random generator ------------------------ *)
\* Mutant of SeedRng: the generator is left as it is.
SeedRng_skipped(seed) == rng

\* np.random.seed(seed)
SeedRng(seed) == [seed |-> seed, pos |-> 0]

\* The raw values the generator can return at state g: the recorded one, or,
\* at a position not revealed yet, any of the canonical raw values fresh.
RawAt(tp, g, fresh) ==
    IF g.pos + 1 <= Len(tp[g.seed]) THEN {tp[g.seed][g.pos + 1]} ELSE fresh

\* The tape after the generator returned x at state g.
Reveal(tp, g, x) ==
    IF g.pos + 1 <= Len(tp[g.seed]) THEN tp
    ELSE [tp EXCEPT ![g.seed] = Append(@, x)]

Advance(g) == [g EXCEPT !.pos = @ + 1]

\* np.random.uniform(low, high) on the grid of quarter turns: [low, high)
UniformWidth(low, high) == IF high > low THEN high - low ELSE 1

Uniform(low, high, x) == low + (x % UniformWidth(low, high))

\* np.random.rand(3) - 0.5, on the six axis directions
RandVecs == <<
    <<1, 0, 0>>, <<-1, 0, 0>>, <<0, 1, 0>>, <<0, -1, 0>>, <<0, 0, 1>>, <<0, 0, -1>> >>

RandVec(x) == RandVecs[(x % 6) + 1]

(* A walk is a record of the object's fields (path.py) or of the call's      *)
(* arguments and locals (conformations.py), with pc (init, loop, done,       *)
(* failed), err (the number the raised RuntimeError carries, in a tuple) and *)
(* three history fields: decisions (accepted? per attempt), proposed (every  *)
(* candidate with the point it was grown from) and used (the stream cells    *)
(* (seed, position) its draws read).                                         *)

(* --------------------- mbuild/path.py: the sampler -------------------- *)
None == <<>>

\* No PeriodicKDTree has been constructed.
NoTree == [pc |-> "none"]

\* No Visualize has been constructed.
NoWidget == [pc |-> "none"]

\* Mutant of HSRW_next_coordinate: the bend is measured from the forward bond
\* vector pos1 - pos2.
HSRW_next_coordinate_forward(self, pos1, pos2, x1, x2) ==
    IF pos2 = None
    THEN LET phi == Uniform(0, 4, x1)
             theta == Uniform(0, 2, x2)
             next_pos == << self.bond_length * Sin(theta) * Cos(phi),
                            self.bond_length * Sin(theta) * Sin(phi),
                            self.bond_length * Cos(theta) >>
         IN  VAdd(pos1, next_pos)
    ELSE LET v1 == VSub(pos1, pos2)
             v1_norm == VDivNorm(v1)
             theta == Uniform(self.min_angle, self.max_angle, x1)
             r == RandVec(x2)
             r_perp == VSub(r, VScale(Dot(r, v1_norm), v1_norm))
             r_perp_norm == VDivNorm(r_perp)
             v2 == VAdd(VScale(Cos(theta), v1_norm), VScale(Sin(theta), r_perp_norm))
             next_pos == VScale(self.bond_length, v2)
         IN  VAdd(pos1, next_pos)

\* HardSphereRandomWalk._next_coordinate; x1, x2 are the raw values of its two
\* np.random calls, in call order.
HSRW_next_coordinate(self, pos1, pos2, x1, x2) ==
    IF pos2 = None
    THEN LET phi == Uniform(0, 4, x1)
             theta == Uniform(0, 2, x2)
             next_pos == << self.bond_length * Sin(theta) * Cos(phi),
                            self.bond_length * Sin(theta) * Sin(phi),
                            self.bond_length * Cos(theta) >>
         IN  VAdd(pos1, next_pos)
    ELSE LET v1 == VSub(pos2, pos1)
             v1_norm == VDivNorm(v1)
             theta == Uniform(self.min_angle, self.max_angle, x1)
             r == RandVec(x2)
             r_perp == VSub(r, VScale(Dot(r, v1_norm), v1_norm))
             r_perp_norm == VDivNorm(r_perp)
             v2 == VAdd(VScale(Cos(theta), v1_norm), VScale(Sin(theta), r_perp_norm))
             next_pos == VScale(self.bond_length, v2)
         IN  VAdd(pos1, next_pos)

(* ------------------ mbuild/path.py: the overlap check ----------------- *)
\* The periodic images freud queries: shifts of -1, 0, +1 box lengths per axis.
ImageShifts == {-1, 0, 1}

Sq(x) == x * x

\* Some periodic image of point a is closer to point b than r_max: lengths are
\* compared in hundredths, box100 being the box lengths in hundredths.
WithinImage(a, b, r_max, box100) ==
    LET dx == 100 * (b[1] - a[1])
        dy == 100 * (b[2] - a[2])
        dz == 100 * (b[3] - a[3])
        r_cutsq == Sq(100 * r_max)
    IN  \E i \in ImageShifts : Sq(dx - i * box100[1]) < r_cutsq /\
        \E j \in ImageShifts : Sq(dx - i * box100[1]) + Sq(dy - j * box100[2]) < r_cutsq /\
        \E k \in ImageShifts :
            Sq(dx - i * box100[1]) + Sq(dy - j * box100[2]) + Sq(dz - k * box100[3]) < r_cutsq

\* Path.neighbor_list: the pairs (i, j), i # j, of coordinates with some periodic
\* image of i closer to j than r_max (r_min = 0.0, exclude_ii = True).
neighbor_list(r_max, coordinates, box100) ==
    {p \in (DOMAIN coordinates) \X (DOMAIN coordinates) :
        p[1] # p[2] /\ WithinImage(coordinates[p[1]], coordinates[p[2]], r_max, box100)}

\* HardSphereRandomWalk._check_path
HSRW_check_path(self) ==
    LET box_length100 == self.count * self.radius * 201
        coordinates == [i \in 0..(self.count + 1) |-> self.coordinates[i]]
        nlist == neighbor_list(self.radius - self.tolerance, coordinates,
                               <<box_length100, box_length100, box_length100>>)
    IN  IF nlist # {} THEN FALSE ELSE TRUE

(* --------------- mbuild/path.py: HardSphereRandomWalk ----------------- *)
\* Path.__init__ and HardSphereRandomWalk.__init__
HSRW_init(N, bond_length, radius, min_angle, max_angle, max_attempts, seed, tolerance) ==
    [impl |-> "hsrw", pc |-> "init", err |-> <<>>,
     bond_length |-> bond_length, radius |-> radius,
     min_angle |-> min_angle, max_angle |-> max_angle,
     seed |-> seed, tolerance |-> tolerance, max_attempts |-> max_attempts,
     attempts |-> 0, count |-> 0, N |-> N,
     coordinates |-> [i \in 0..(N - 1) |-> Zeros3], bonds |-> <<>>,
     decisions |-> <<>>, proposed |-> <<>>, used |-> <<>>]

\* generate, lines 152-154: the first move, always accepted
HSRW_first_move(self, x1, x2) ==
    LET new_xyz == HSRW_next_coordinate(self, self.coordinates[0], None, x1, x2)
    IN  [self EXCEPT
            !.coordinates = [@ EXCEPT ![1] = new_xyz],
            !.bonds = Append(@, <<0, 1>>),
            !.count = @ + 1,
            !.proposed = Append(@, [pos1 |-> self.coordinates[0], xyz |-> new_xyz]),
            !.pc = "loop"]

\* Mutant of HSRW_exhausted: the budget is tested with > for ==.
HSRW_exhausted_late(self) == self.attempts > self.max_attempts /\ self.count < self.N

\* generate, line 168: the budget test after each attempt
HSRW_exhausted(self) == self.attempts = self.max_attempts /\ self.count < self.N

\* generate, lines 169-173: the error raised, carrying count
HSRW_raise(self) == [self EXCEPT !.pc = "failed", !.err = <<self.count>>]

\* Mutant of HSRW_accept: the bond is recorded after count has advanced.
HSRW_accept_bond_late(self) ==
    [self EXCEPT
        !.bonds = Append(@, <<self.count + 1, self.count + 2>>),
        !.count = @ + 1,
        !.attempts = @ + 1,
        !.decisions = Append(@, TRUE)]

\* generate, lines 162-164: the trial move is accepted
HSRW_accept(self) ==
    [self EXCEPT
        !.bonds = Append(@, <<self.count, self.count + 1>>),
        !.count = @ + 1,
        !.attempts = @ + 1,
        !.decisions = Append(@, TRUE)]

\* Mutant of HSRW_reject: the trial slot keeps the rejected candidate.
HSRW_reject_stale(self) ==
    [self EXCEPT
        !.attempts = @ + 1,
        !.decisions = Append(@, FALSE)]

\* generate, lines 166-167: the trial move is rejected
HSRW_reject(self) ==
    [self EXCEPT
        !.coordinates = [@ EXCEPT ![self.count + 1] = Zeros3],
        !.attempts = @ + 1,
        !.decisions = Append(@, FALSE)]

\* generate, lines 156-173: one iteration of the while loop
HSRW_loop_body(self, x1, x2) ==
    LET new_xyz == HSRW_next_coordinate(self, self.coordinates[self.count],
                                        self.coordinates[self.count - 1], x1, x2)
        trial == [self EXCEPT
                     !.coordinates = [@ EXCEPT ![self.count + 1] = new_xyz],
                     !.proposed = Append(@, [pos1 |-> self.coordinates[self.count],
                                             xyz |-> new_xyz])]
        after == IF HSRW_check_path(trial) THEN HSRW_accept(trial) ELSE HSRW_reject(trial)
    IN  IF HSRW_exhausted(after) THEN HSRW_raise(after) ELSE after

(* ------------------ mbuild/conformations.py: random_walk -------------- *)
\* Mutant of RW_next_coordinate: the last bond vector is not normalised.
RW_next_coordinate_unnormalised(bond_L, pos1, pos2, min_angle, max_angle, x1, x2) ==
    IF pos2 = None
    THEN LET phi == Uniform(0, 4, x1)
             theta == Uniform(0, 2, x2)
             next_pos == << bond_L * Sin(theta) * Cos(phi),
                            bond_L * Sin(theta) * Sin(phi),
                            bond_L * Cos(theta) >>
         IN  VAdd(pos1, next_pos)
    ELSE LET v1 == VSub(pos2, pos1)
             v1_norm == v1
             theta == Uniform(min_angle, max_angle, x1)
             r == RandVec(x2)
             r_perp == VSub(r, VScale(Dot(r, v1_norm), v1_norm))
             r_perp_norm == VDivNorm(r_perp)
             v2 == VAdd(VScale(Cos(theta), v1_norm), VScale(Sin(theta), r_perp_norm))
             next_pos == VScale(bond_L, v2)
         IN  VAdd(pos1, next_pos)

\* _next_coordinate; x1, x2 are the raw values of its two np.random calls.
RW_next_coordinate(bond_L, pos1, pos2, min_angle, max_angle, x1, x2) ==
    IF pos2 = None
    THEN LET phi == Uniform(0, 4, x1)
             theta == Uniform(0, 2, x2)
             next_pos == << bond_L * Sin(theta) * Cos(phi),
                            bond_L * Sin(theta) * Sin(phi),
                            bond_L * Cos(theta) >>
         IN  VAdd(pos1, next_pos)
    ELSE LET v1 == VSub(pos2, pos1)
             v1_norm == VDivNorm(v1)
             theta == Uniform(min_angle, max_angle, x1)
             r == RandVec(x2)
             r_perp == VSub(r, VScale(Dot(r, v1_norm), v1_norm))
             r_perp_norm == VDivNorm(r_perp)
             v2 == VAdd(VScale(Cos(theta), v1_norm), VScale(Sin(theta), r_perp_norm))
             next_pos == VScale(bond_L, v2)
         IN  VAdd(pos1, next_pos)

\* Mutant of RW_check_system: the slice stops one point early, at count - 2.
RW_check_system_short(system_coordinates, radius, count) ==
    LET current_xyz == system_coordinates[count]
    IN  \A i \in 0..(count - 3) :
            ~ (Dist2(system_coordinates[i], current_xyz) < radius * radius)

\* _check_system: d < radius for some xyz in system_coordinates[: count - 1]
RW_check_system(system_coordinates, radius, count) ==
    LET current_xyz == system_coordinates[count]
    IN  \A i \in 0..(count - 2) :
            ~ (Dist2(system_coordinates[i], current_xyz) < radius * radius)

\* A call of random_walk with its arguments, before its first statement.
RW_call(N, bond_L, radius, min_angle, max_angle, max_tries, seed) ==
    [impl |-> "rw", pc |-> "init", err |-> <<>>,
     N |-> N, bond_L |-> bond_L, radius |-> radius,
     min_angle |-> min_angle, max_angle |-> max_angle,
     max_tries |-> max_tries, seed |-> seed,
     decisions |-> <<>>, proposed |-> <<>>, used |-> <<>>]

\* random_walk, lines 84-87: the locals after the first move
RW_first_move(c, x1, x2) ==
    LET coordinates == [i \in 0..(c.N - 1) |-> Zeros3]
        new_xyz == RW_next_coordinate(c.bond_L, coordinates[0], None, None, None, x1, x2)
    IN  [impl |-> "rw", pc |-> "loop", err |-> <<>>,
         N |-> c.N, bond_L |-> c.bond_L, radius |-> c.radius,
         min_angle |-> c.min_angle, max_angle |-> c.max_angle,
         max_tries |-> c.max_tries, seed |-> c.seed,
         coordinates |-> [coordinates EXCEPT ![1] = new_xyz],
         tries |-> 0, count |-> 1,
         decisions |-> c.decisions,
         proposed |-> Append(c.proposed, [pos1 |-> coordinates[0], xyz |-> new_xyz]),
         used |-> c.used]

\* random_walk, line 106: the budget test after each try
RW_exhausted(c) == c.tries = c.max_tries /\ c.count < c.N

\* Mutant of RW_raise: the error carries the number of tries.
RW_raise_tries(c) == [c EXCEPT !.pc = "failed", !.err = <<c.tries>>]

\* random_walk, lines 107-111: the error raised, carrying count
RW_raise(c) == [c EXCEPT !.pc = "failed", !.err = <<c.count>>]

\* Mutant of RW_accept: an accepted move uses no try.
RW_accept_free(c) ==
    [c EXCEPT !.count = @ + 1, !.decisions = Append(@, TRUE)]

\* random_walk, lines 101-102
RW_accept(c) ==
    [c EXCEPT !.count = @ + 1, !.tries = @ + 1, !.decisions = Append(@, TRUE)]

\* Mutant of RW_reject: the slot reset is the last accepted one, count.
RW_reject_accepted(c) ==
    [c EXCEPT
        !.coordinates = [@ EXCEPT ![c.count] = Zeros3],
        !.tries = @ + 1,
        !.decisions = Append(@, FALSE)]

\* random_walk, lines 104-105
RW_reject(c) ==
    [c EXCEPT
        !.coordinates = [@ EXCEPT ![c.count + 1] = Zeros3],
        !.tries = @ + 1,
        !.decisions = Append(@, FALSE)]

\* random_walk, lines 89-111: one iteration of the while loop
RW_loop_body(c, x1, x2) ==
    LET new_xyz == RW_next_coordinate(c.bond_L, c.coordinates[c.count],
                                      c.coordinates[c.count - 1],
                                      c.min_angle, c.max_angle, x1, x2)
        trial == [c EXCEPT
                     !.coordinates = [@ EXCEPT ![c.count + 1] = new_xyz],
                     !.proposed = Append(@, [pos1 |-> c.coordinates[c.count],
                                             xyz |-> new_xyz])]
        after == IF RW_check_system(trial.coordinates, trial.radius, trial.count + 1)
                 THEN RW_accept(trial) ELSE RW_reject(trial)
    IN  IF RW_exhausted(after) THEN RW_raise(after) ELSE after

(* ------------------------------ accessors ----------------------------- *)
Attempts(s) == IF s.impl = "hsrw" THEN s.attempts ELSE s.tries

MaxAttemptsOf(s) == IF s.impl = "hsrw" THEN s.max_attempts ELSE s.max_tries

BondLength(s) == IF s.impl = "hsrw" THEN s.bond_length ELSE s.bond_L

\* radius - tolerance, the distance below which a pair overlaps
RMax(s) == IF s.impl = "hsrw" THEN s.radius - s.tolerance ELSE s.radius

Started(s) == s.pc # "init"

(* ---------------------------- the two draws --------------------------- *)
\* The raw values fresh to the second draw of a later step: rand(3) - 0.5 not
\* parallel to the last bond, so that r_perp has a direction.
FreshVec(s) ==
    {x \in 0..5 : Dot(RandVec(x), VSub(s.coordinates[s.count - 1],
                                       s.coordinates[s.count])) = 0}

\* r_perp is not the zero vector (whose normalisation is not a number)
HasPerp(s, x2) ==
    Dot(RandVec(x2), VSub(s.coordinates[s.count - 1], s.coordinates[s.count])) = 0

\* The cells of the stream two successive draws at g read.
Cells(g) == << <<g.seed, g.pos + 1>>, <<g.seed, g.pos + 2>> >>

(* ------------------------------- actions ------------------------------ *)
\* generate / random_walk up to the loop: seed the process-wide generator and
\* make the first move.
Start(w) ==
    /\ walk[w].pc = "init"
    /\ LET s == walk[w]
           g0 == SeedRng(s.seed)
       IN  \E x1 \in RawAt(tape, g0, 0..3) :
             LET t1 == Reveal(tape, g0, x1)
                 g1 == Advance(g0)
             IN  \E x2 \in RawAt(t1, g1, 0..1) :
                   LET moved == IF s.impl = "hsrw" THEN HSRW_first_move(s, x1, x2)
                                ELSE RW_first_move(s, x1, x2)
                   IN  /\ walk' = [walk EXCEPT ![w] =
                                     [moved EXCEPT !.used = @ \o Cells(g0)]]
                       /\ tape' = Reveal(t1, g1, x2)
                       /\ rng' = Advance(g1)
    /\ UNCHANGED <<prev, others, tree, widget>>

\* One iteration of the while loop, drawing from the process-wide generator.
Iterate(w) ==
    /\ walk[w].pc = "loop"
    /\ walk[w].count < walk[w].N - 1
    /\ Attempts(walk[w]) <= MaxAttempts
    /\ LET s == walk[w]
           g0 == rng
       IN  \E x1 \in RawAt(tape, g0, 0..(UniformWidth(s.min_angle, s.max_angle) - 1)) :
             LET t1 == Reveal(tape, g0, x1)
                 g1 == Advance(g0)
             IN  \E x2 \in RawAt(t1, g1, FreshVec(s)) :
                   /\ HasPerp(s, x2)
                   /\ LET after == IF s.impl = "hsrw" THEN HSRW_loop_body(s, x1, x2)
                                   ELSE RW_loop_body(s, x1, x2)
                      IN  walk' = [walk EXCEPT ![w] =
                                     [after EXCEPT !.used = @ \o Cells(g0)]]
                   /\ tape' = Reveal(t1, g1, x2)
                   /\ rng' = Advance(g1)
    /\ UNCHANGED <<prev, others, tree, widget>>

\* The loop condition count < N - 1 is false: generate / random_walk returns.
Return(w) ==
    /\ walk[w].pc = "loop"
    /\ ~ (walk[w].count < walk[w].N - 1)
    /\ walk' = [walk EXCEPT ![w].pc = "done"]
    /\ UNCHANGED <<rng, tape, prev, others, tree, widget>>

(* ---------------------------- specification --------------------------- *)
Ns == 2..MaxN

Budgets == 0..MaxAttempts

AngleRanges == {a \in Angles \X Angles : a[1] <= a[2]}

\* radius and tolerance, with radius - tolerance a positive query distance
RadiusTolerances == {rt \in Radii \X Tolerances : rt[2] < rt[1]}

HSRW_walks(bonds, rts, seeds) ==
    {HSRW_init(N, b, rt[1], a[1], a[2], m, sd, rt[2]) :
        N \in Ns, b \in bonds, rt \in rts, a \in AngleRanges,
        m \in Budgets, sd \in seeds}

RW_calls(bonds, radii, seeds) ==
    {RW_call(N, b, r, a[1], a[2], m, sd) :
        N \in Ns, b \in bonds, r \in radii, a \in AngleRanges,
        m \in Budgets, sd \in seeds}

\* The generator before anyone has seeded it, and the streams not yet revealed.
Unseeded == [seed |-> 0, pos |-> 0]

NoTape == [sd \in Seeds \cup {0} |-> <<>>]

Init ==
    /\ walk \in [{1} -> HSRW_walks(BondLengths, RadiusTolerances, {1})
                            \cup RW_calls(BondLengths, Radii, {1})]
    /\ rng = Unseeded
    /\ tape = NoTape
    /\ prev = <<>>
    /\ others = 0
    /\ tree = NoTree
    /\ widget = NoWidget

StartGenerate == \E w \in DOMAIN walk : Start(w)

IterateLoop == \E w \in DOMAIN walk : Iterate(w)

ReturnChain == \E w \in DOMAIN walk : Return(w)

Next == StartGenerate \/ IterateLoop \/ ReturnChain

Spec == Init /\ [][Next]_vars

(* ----------------------- repeated and other calls --------------------- *)
\* A new object, or a new call, with the arguments of s.
Fresh(s) ==
    IF s.impl = "hsrw"
    THEN HSRW_init(s.N, s.bond_length, s.radius, s.min_angle, s.max_angle,
                   s.max_attempts, s.seed, s.tolerance)
    ELSE RW_call(s.N, s.bond_L, s.radius, s.min_angle, s.max_angle, s.max_tries, s.seed)

\* Every call has ended; the caller of k repeats its call, alone, with the same
\* arguments.
CallAgain(k) ==
    /\ prev = <<>>
    /\ \A w \in DOMAIN walk : walk[w].pc \in {"done", "failed"}
    /\ prev' = <<walk[k]>>
    /\ walk' = [w \in {1} |-> Fresh(walk[k])]
    /\ UNCHANGED <<rng, tape, others, tree, widget>>

Repeat == \E k \in DOMAIN walk : CallAgain(k)

\* Other code of the process draws from np.random while no call is running.
OtherDraw ==
    /\ others < MaxOthers
    /\ \A w \in DOMAIN walk : walk[w].pc # "loop"
    /\ \E x \in RawAt(tape, rng, 0..1) :
          /\ tape' = Reveal(tape, rng, x)
          /\ rng' = Advance(rng)
    /\ others' = others + 1
    /\ UNCHANGED <<walk, prev, tree, widget>>

\* Other code of the process seeds np.random while no call is running.
OtherSeed ==
    /\ others < MaxOthers
    /\ \A w \in DOMAIN walk : walk[w].pc # "loop"
    /\ \E sd \in Seeds : rng' = SeedRng(sd)
    /\ others' = others + 1
    /\ UNCHANGED <<walk, tape, prev, tree, widget>>

\* One caller, two calls in sequence, other code using the generator between.
InitSeq ==
    /\ walk \in [{1} -> HSRW_walks({1}, {<<1, 0>>, <<2, 0>>}, {1})
                            \cup RW_calls({1}, Radii, {1})]
    /\ walk[1].max_angle = 2
    /\ rng = Unseeded
    /\ tape = NoTape
    /\ prev = <<>>
    /\ others = 0
    /\ tree = NoTree
    /\ widget = NoWidget

SeqSpec == InitSeq /\ [][Next \/ Repeat \/ OtherDraw \/ OtherSeed]_vars

\* Two callers, each with a seed of its own, their steps interleaved; then one
\* of the two calls is repeated alone.
InitConc ==
    /\ walk \in [{1, 2} -> HSRW_walks({1}, {<<1, 0>>}, Seeds)
                               \cup RW_calls({1}, {1}, Seeds)]
    /\ walk[1].seed = 1
    /\ walk[2].seed = 2
    /\ walk[1].N = 3
    /\ walk[1].min_angle >= 1
    /\ walk[2].N = 2
    /\ walk[2].min_angle = 2
    /\ \A w \in {1, 2} :
          walk[w].max_angle = 2 /\ MaxAttemptsOf(walk[w]) = MaxAttempts
    /\ rng = Unseeded
    /\ tape = NoTape
    /\ prev = <<>>
    /\ others = 0
    /\ tree = NoTree
    /\ widget = NoWidget

ConcSpec == InitConc /\ [][Next \/ Repeat]_vars

(* ------------------------- derived quantities ------------------------- *)
Terminated(s) == s.pc \in {"done", "failed"}

Count(f, seq) == Cardinality({k \in 1..Len(seq) : seq[k] = f})

\* The coordinates finalized so far: the origin, the first move, and one per
\* accepted attempt.
Finalized(s) == 2 + Count(TRUE, s.decisions)

Rejections(s) == Count(FALSE, s.decisions)

\* arccos(u.v / (|u| |v|)) in quarter turns
AngleBetween(u, v) == CHOOSE q \in 0..2 : Cos(q) * Norm(u) * Norm(v) = Dot(u, v)

(* -------------------------------- C1 ---------------------------------- *)
\* C1: with N >= 2 and max_attempts >= 1 a fresh generate / random_walk tests
\* at most max_attempts candidates in its rejection loop and then has ended:
\* every iteration tests one candidate and uses one attempt, the loop goes on
\* only while attempts < max_attempts, and what is not looping has returned or
\* raised.
C1_Terminates ==
    \A w \in DOMAIN walk :
        (Started(walk[w]) /\ MaxAttemptsOf(walk[w]) >= 1) =>
            /\ Len(walk[w].proposed) - 1 = Attempts(walk[w])
            /\ Attempts(walk[w]) <= MaxAttemptsOf(walk[w])
            /\ (walk[w].pc = "loop" /\ walk[w].count < walk[w].N - 1)
                   => Attempts(walk[w]) < MaxAttemptsOf(walk[w])
            /\ (walk[w].pc = "loop" /\ ~ (walk[w].count < walk[w].N - 1))
                   => ENABLED ReturnChain
            /\ Attempts(walk[w]) = MaxAttemptsOf(walk[w]) => Terminated(walk[w])

\* The budget ran out after a rejection and an acceptance.
C1_Witness ==
    /\ walk[1].pc = "failed"
    /\ MaxAttemptsOf(walk[1]) >= 2
    /\ Attempts(walk[1]) = MaxAttemptsOf(walk[1])
    /\ Rejections(walk[1]) >= 1

(* -------------------------------- C2 ---------------------------------- *)
\* C2: the budget error is raised only when fewer than N coordinates have been
\* accepted; a chain completed on the last allowed attempt is returned.
C2_FailsOnlyIfIncomplete ==
    \A w \in DOMAIN walk : walk[w].pc = "failed" => Finalized(walk[w]) < walk[w].N

(* -------------------------------- C3 ---------------------------------- *)
\* C3: with max_attempts = 0 and N > 2 no candidate is tested or accepted:
\* generation does not return, and the error it raises reports count = 1.
C3_ZeroBudgetFails ==
    \A w \in DOMAIN walk :
        (MaxAttemptsOf(walk[w]) = 0 /\ walk[w].N > 2 /\ Started(walk[w]))
            => /\ walk[w].pc # "done"
               /\ walk[w].count = 1
               /\ Attempts(walk[w]) = 0
               /\ (walk[w].pc = "failed" => walk[w].err = <<1>>)

(* -------------------------------- C4 ---------------------------------- *)
\* C4: after initialisation HardSphereRandomWalk has count bonds, the k-th
\* being (k, k + 1); on return it has N coordinates and N - 1 bonds.
C4_Bonds ==
    \A w \in DOMAIN walk :
        (walk[w].impl = "hsrw" /\ Started(walk[w])) =>
            /\ Len(walk[w].bonds) = walk[w].count
            /\ \A k \in 0..(Len(walk[w].bonds) - 1) : walk[w].bonds[k + 1] = <<k, k + 1>>
            /\ (walk[w].pc = "done" =>
                    /\ DOMAIN walk[w].coordinates = 0..(walk[w].N - 1)
                    /\ Len(walk[w].bonds) = walk[w].N - 1)

\* A walk of at least four points returned after a rejected attempt.
C4_Witness ==
    /\ walk[1].impl = "hsrw"
    /\ walk[1].pc = "done"
    /\ walk[1].N >= 4
    /\ Rejections(walk[1]) >= 1

(* -------------------------------- C5 ---------------------------------- *)
\* C5: accepted coordinates i, j with |i - j| > 1 are at Euclidean distance
\* >= radius - tolerance, in every state of the loop and in the returned chain.
C5_SelfAvoiding ==
    \A w \in DOMAIN walk :
        Started(walk[w]) =>
            \A i, j \in 0..walk[w].count :
                j - i > 1 =>
                    Dist2(walk[w].coordinates[i], walk[w].coordinates[j])
                        >= RMax(walk[w]) * RMax(walk[w])

\* A candidate was rejected and a later one accepted next to three others.
C5_Witness ==
    /\ walk[1].pc = "done"
    /\ walk[1].count >= 3
    /\ Rejections(walk[1]) >= 1

(* -------------------------------- C6 ---------------------------------- *)
\* C6 as stated: the angle between the bond vectors c[i] - c[i-1] and
\* c[i+1] - c[i] lies within [min_angle, max_angle].
C6_ForwardAngle ==
    \A w \in DOMAIN walk :
        Started(walk[w]) =>
            \A i \in 1..(walk[w].count - 1) :
                LET c == walk[w].coordinates
                    a == AngleBetween(VSub(c[i], c[i - 1]), VSub(c[i + 1], c[i]))
                IN  walk[w].min_angle <= a /\ a <= walk[w].max_angle

\* C6 amended: the angle at the middle point, between c[i-1] - c[i] and
\* c[i+1] - c[i], lies within [min_angle, max_angle]: the sampler bends the new
\* bond by theta away from the backward bond vector pos2 - pos1.
C6_VertexAngle ==
    \A w \in DOMAIN walk :
        Started(walk[w]) =>
            \A i \in 1..(walk[w].count - 1) :
                LET c == walk[w].coordinates
                    a == AngleBetween(VSub(c[i - 1], c[i]), VSub(c[i + 1], c[i]))
                IN  walk[w].min_angle <= a /\ a <= walk[w].max_angle

\* Two bends were accepted, one of them a right angle.
C6_Witness ==
    /\ Started(walk[1])
    /\ walk[1].count >= 3
    /\ \E i \in 1..(walk[1].count - 1) :
          Dot(VSub(walk[1].coordinates[i - 1], walk[1].coordinates[i]),
              VSub(walk[1].coordinates[i + 1], walk[1].coordinates[i])) = 0

(* -------------------------------- C7 ---------------------------------- *)
\* C7: every candidate, of the first move and of every later attempt, is at
\* distance bond_length from the point it is grown from, and so are all
\* consecutive accepted coordinates.
C7_BondLength ==
    \A w \in DOMAIN walk :
        Started(walk[w]) =>
            /\ \A k \in 1..Len(walk[w].proposed) :
                  Dist2(walk[w].proposed[k].pos1, walk[w].proposed[k].xyz)
                      = BondLength(walk[w]) * BondLength(walk[w])
            /\ \A i \in 0..(walk[w].count - 1) :
                  Dist2(walk[w].coordinates[i], walk[w].coordinates[i + 1])
                      = BondLength(walk[w]) * BondLength(walk[w])

\* A walk with bonds of length 2 accepted a candidate and rejected another.
C7_Witness ==
    /\ Started(walk[1])
    /\ BondLength(walk[1]) = 2
    /\ walk[1].count >= 2
    /\ Rejections(walk[1]) >= 1

C8_Deterministic ==
    (prev # <<>> /\ Terminated(walk[1])) => walk[1] = prev[1]

\* The repeated call ended after a rejection, other code having used the
\* generator.
C8_Witness ==
    /\ prev # <<>>
    /\ Terminated(walk[1])
    /\ Rejections(walk[1]) >= 1
    /\ walk[1].count >= 2
    /\ others >= 1

(* -------------------------------- C9 ---------------------------------- *)
\* C9: a call whose steps were interleaved with those of another call, each
\* with its own seed, ends with the chain and outcome it has when run alone.
C9_IsolatedStreams ==
    (prev # <<>> /\ Terminated(walk[1])) =>
        /\ prev[1].coordinates = walk[1].coordinates
        /\ prev[1].pc = walk[1].pc
        /\ prev[1].err = walk[1].err

(* ========================== PeriodicKDTree ============================ *)
(* mbuild/periodic_kdtree.py.  Points are integer vectors.  A distance d is *)
(* carried as its square d2, and a radius r as 2r, so that the cap at half  *)
(* a box length stays an integer: d <= r is 4 * d2 <= (2r)^2.               *)

\* np.inf, larger than every doubled radius and every squared distance here
Infinity == 10000

MaxPoints == 2
MaxK == 2
MaxR == 3

\* data and query points: outside the cell below and above, on both faces
TreePoints == {<<x, y, 0>> : x \in -1..4, y \in {0, 3}}

\* bounds vectors: cubic, partly periodic, not cubic, not periodic, and of a
\* length other than the dimension of the points
BoundsVectors ==
    {<<4, 4, 4>>, <<4, 0, 0>>, <<6, 4, 0>>, <<0, -1, 0>>,
     <<4>>, <<0>>, <<4, 4>>, <<4, 4, 4, 4>>}

Min2(a, b) == IF a <= b THEN a ELSE b

Twice(r) == IF r = Infinity THEN Infinity ELSE 2 * r

\* the elements of a finite set of integers, ascending
RECURSIVE Ascending(_)
Ascending(S) ==
    IF S = {} THEN <<>>
    ELSE LET lo == CHOOSE a \in S : \A b \in S : a <= b
         IN  <<lo>> \o Ascending(S \ {lo})

\* chain(*lists)
RECURSIVE Chain(_)
Chain(lists) == IF lists = <<>> THEN <<>> ELSE Head(lists) \o Chain(Tail(lists))

\* Mutant of Wrap: the coordinate is reduced by truncation, not by floor.
Wrap_truncating(x, L) == IF x < 0 THEN -((-x) % L) ELSE x % L

\* x - np.floor(x / L) * L
Wrap(x, L) == x - (x \div L) * L

\* numpy broadcasting of an (n, m) array against a vector of length b
Broadcasts(m, b) == b = m \/ b = 1

BroadcastAt(bounds, a) == IF Len(bounds) = 1 THEN bounds[1] ELSE bounds[a]

\* Mutant of WrappedData: the tree is built over the data as given.
WrappedData_asgiven(bounds, real_data) == real_data

\* __init__, lines 129-133: the data mapped to the canonical image
WrappedData(bounds, real_data) ==
    [i \in 1..Len(real_data) |->
        [a \in 1..Len(real_data[i]) |->
            IF BroadcastAt(bounds, a) > 0
            THEN Wrap(real_data[i][a], BroadcastAt(bounds, a))
            ELSE real_data[i][a]]]

\* __init__, lines 136-138: twice the largest distance a query may ask for
RECURSIVE MaxDistanceUpperBound2(_)
MaxDistanceUpperBound2(bounds) ==
    IF bounds = <<>> THEN Infinity
    ELSE Min2(IF Head(bounds) > 0 THEN Head(bounds) ELSE Infinity,
              MaxDistanceUpperBound2(Tail(bounds)))

\* PeriodicKDTree.__init__
PeriodicKDTree_init(bounds, data) ==
    IF ~Broadcasts(Len(data[1]), Len(bounds))
    THEN [pc |-> "error", err |-> "ValueError", bounds |-> bounds, real_data |-> data]
    ELSE [pc |-> "built", bounds |-> bounds, real_data |-> data,
          data |-> WrappedData(bounds, data),
          max_distance_upper_bound2 |-> MaxDistanceUpperBound2(bounds),
          n |-> Len(data), m |-> Len(data[1]),
          op |-> "__init__", args |-> <<>>, res |-> <<>>, err |-> ""]

\* Mutant of RealX: the point is not mapped into the cell.
RealX_unmapped(x, bounds) == x

\* _gen_relevant_images, lines 46-50
RealX(x, bounds) ==
    [i \in 1..Len(x) |-> IF bounds[i] > 0 THEN Wrap(x[i], bounds[i]) ELSE x[i]]

\* _gen_relevant_images, lines 55-73: the images added axis by axis
RECURSIVE Images(_, _, _, _, _)
Images(xs, real_x, bounds, dub2, i) ==
    IF i > Len(real_x) THEN xs
    ELSE IF bounds[i] > 0
    THEN LET disp == [j \in 1..Len(real_x) |-> IF j = i THEN bounds[i] ELSE 0]
             plus == [n \in 1..Len(xs) |-> VAdd(xs[n], disp)]
             minus == [n \in 1..Len(xs) |-> VSub(xs[n], disp)]
             all3 == Chain([n \in 1..Len(xs) |-> <<plus[n], xs[n], minus[n]>>])
             lower == IF 2 * Abs(real_x[i]) < dub2 THEN plus ELSE <<>>
             upper == IF 2 * Abs(bounds[i] - real_x[i]) < dub2 THEN minus ELSE <<>>
         IN  Images(IF dub2 = Infinity THEN all3 ELSE xs \o lower \o upper,
                    real_x, bounds, dub2, i + 1)
    ELSE Images(xs, real_x, bounds, dub2, i + 1)

\* Mutant of gen_relevant_images: no image is produced.
gen_relevant_images_none(x, bounds, dub2) == <<RealX(x, bounds)>>

\* _gen_relevant_images(x, bounds, distance_upper_bound)
gen_relevant_images(x, bounds, dub2) ==
    Images(<<RealX(x, bounds)>>, RealX(x, bounds), bounds, dub2, 1)

\* scipy KDTree.query_ball_point(y, r): the indices at distance <= r
KDTree_query_ball_point(self, y, r2) ==
    Ascending({i \in 0..(self.n - 1) : 4 * Dist2(self.data[i + 1], y) <= r2 * r2})

\* __query_ball_point, lines 336-344
PKD__query_ball_point(self, x, r) ==
    LET r2 == Min2(Twice(r), self.max_distance_upper_bound2)
        xs == gen_relevant_images(x, self.bounds, r2)
    IN  Chain([n \in 1..Len(xs) |-> KDTree_query_ball_point(self, xs[n], r2)])

\* The outcome of an operation on the tree: what it returned or raised.
Returned(self, op, args, res) ==
    [self EXCEPT !.op = op, !.args = args, !.res = res, !.err = ""]

Raised(self, op, args, err) ==
    [self EXCEPT !.op = op, !.args = args, !.res = <<>>, !.err = err]

\* query_ball_point, lines 376-383, for a single point x
PKD_query_ball_point(self, x, r) ==
    IF Len(x) # self.m
    THEN Raised(self, "query_ball_point", <<x, r>>, "ValueError")
    ELSE IF Len(self.bounds) < Len(x)
    THEN Raised(self, "query_ball_point", <<x, r>>, "IndexError")
    ELSE Returned(self, "query_ball_point", <<x, r>>, PKD__query_ball_point(self, x, r))

\* (d, i) < (e, j) on tuples
TupleLess(a, b) == a[1] < b[1] \/ (a[1] = b[1] /\ a[2] < b[2])

\* sorted(pairs)
RECURSIVE SortedPairs(_)
SortedPairs(seq) ==
    IF seq = <<>> THEN <<>>
    ELSE LET j == CHOOSE j \in 1..Len(seq) :
                      \A l \in 1..Len(seq) : ~TupleLess(seq[l], seq[j])
         IN  <<seq[j]>> \o SortedPairs(SubSeq(seq, 1, j - 1) \o SubSeq(seq, j + 1, Len(seq)))

\* heapq.nsmallest(k, pairs)
nsmallest(k, seq) == SubSeq(SortedPairs(seq), 1, Min2(k, Len(seq)))

\* k slots, those without a neighbour holding (inf, n)
Padded(hits, k, n) == [j \in 1..k |-> IF j <= Len(hits) THEN hits[j] ELSE <<Infinity, n>>]

\* scipy KDTree.query(y, k, distance_upper_bound): the k nearest points at
\* distance < distance_upper_bound, nearest first, as (d2, i)
KDTree_query(self, y, k, dub2) ==
    LET near == Ascending({i \in 0..(self.n - 1) :
                              4 * Dist2(self.data[i + 1], y) < dub2 * dub2})
        pairs == [j \in 1..Len(near) |-> <<Dist2(self.data[near[j] + 1], y), near[j]>>]
    IN  Padded(nsmallest(k, pairs), k, self.n)

\* Mutant of PKD__query: the hits of the images are not merged by distance.
PKD__query_unmerged(self, x, k, distance_upper_bound) ==
    LET dub2 == Min2(Twice(distance_upper_bound), self.max_distance_upper_bound2)
        xs == gen_relevant_images(x, self.bounds, dub2)
    IN  SubSeq(Chain([n \in 1..Len(xs) |-> KDTree_query(self, xs[n], k, dub2)]), 1, k)

\* __query, lines 204-223, for a single point x and k >= 1
PKD__query(self, x, k, distance_upper_bound) ==
    LET dub2 == Min2(Twice(distance_upper_bound), self.max_distance_upper_bound2)
        xs == gen_relevant_images(x, self.bounds, dub2)
        hits_list == [n \in 1..Len(xs) |-> KDTree_query(self, xs[n], k, dub2)]
    IN  nsmallest(k, Chain(hits_list))

\* query, lines 262-269 and 305-321, for a single point x
PKD_query(self, x, k, distance_upper_bound) ==
    IF Len(x) # self.m
    THEN Raised(self, "query", <<x, k, distance_upper_bound>>, "ValueError")
    ELSE IF Len(self.bounds) < Len(x)
    THEN Raised(self, "query", <<x, k, distance_upper_bound>>, "IndexError")
    ELSE Returned(self, "query", <<x, k, distance_upper_bound>>,
                  Padded(PKD__query(self, x, k, distance_upper_bound), k, self.n))

\* query, lines 262-270 and 305-321, for an array x of several points: retshape
\* is always a tuple, so the array goes to __query as if it were one point.
\* _gen_relevant_images then indexes bounds by row (IndexError when there are
\* more rows than bounds), tests abs(real_x[i]) < distance_upper_bound on a
\* whole row (ValueError) for the first row i with bounds[i] > 0, and
\* otherwise returns the array unwrapped and without images; heapq.nsmallest
\* then compares tuples of arrays when k > 1 (ValueError).
PKD_query_batch(self, x, k, distance_upper_bound) ==
    LET args == <<x, k, distance_upper_bound>>
        dub2 == Min2(Twice(distance_upper_bound), self.max_distance_upper_bound2)
    IN  IF \E c \in 1..Len(x) : Len(x[c]) # self.m
        THEN Raised(self, "query_batch", args, "ValueError")
        ELSE IF Len(self.bounds) < Len(x)
        THEN Raised(self, "query_batch", args, "IndexError")
        ELSE IF \E i \in 1..Len(x) : self.bounds[i] > 0
        THEN Raised(self, "query_batch", args, "ValueError")
        ELSE IF k > 1
        THEN Raised(self, "query_batch", args, "ValueError")
        ELSE Returned(self, "query_batch", args,
                      [c \in 1..Len(x) |-> KDTree_query(self, x[c], k, dub2)])

\* Mutant of PKD_unsupported: the operation returns an empty result.
PKD_unsupported_empty(self, op) == Returned(self, op, <<>>, <<>>)

\* query_ball_tree, query_pairs, count_neighbors, sparse_distance_matrix
PKD_unsupported(self, op) == Raised(self, op, <<>>, "NotImplementedError")

(* ----------------------- operations on the tree ----------------------- *)
TreeData == UNION {[1..n -> TreePoints] : n \in 1..MaxPoints}

\* query points: the points of the grid, and one of another dimension
QueryPoints == TreePoints \cup {<<0, 0>>}

BatchPoints == {<<-1, 0, 0>>, <<1, 3, 0>>, <<3, 0, 0>>}

Ks == 1..MaxK

QueryRadii == 1..MaxR

UpperBounds == {Infinity} \cup QueryRadii

WalkUntouched == UNCHANGED <<walk, rng, tape, prev, others, widget>>

\* PeriodicKDTree(bounds, data)
Construct ==
    /\ tree.pc = "none"
    /\ \E bounds \in BoundsVectors, data \in TreeData :
          tree' = PeriodicKDTree_init(bounds, data)
    /\ WalkUntouched

\* The queries read the tree and leave it as it is: each is applied to the tree
\* as constructed.
Unqueried == tree.pc = "built" /\ tree.op = "__init__"

\* tree.query_ball_point(x, r)
QueryBallPoint ==
    /\ Unqueried
    /\ \E x \in QueryPoints, r \in QueryRadii : tree' = PKD_query_ball_point(tree, x, r)
    /\ WalkUntouched

\* tree.query(x, k, distance_upper_bound=dub)
Query ==
    /\ Unqueried
    /\ \E x \in QueryPoints, k \in Ks, dub \in UpperBounds : tree' = PKD_query(tree, x, k, dub)
    /\ WalkUntouched

\* tree.query([x1, x2], k, distance_upper_bound=dub)
QueryBatch ==
    /\ Unqueried
    /\ \E x \in BatchPoints \X BatchPoints, k \in Ks, dub \in UpperBounds :
          tree' = PKD_query_batch(tree, x, k, dub)
    /\ WalkUntouched

QueryBallTree ==
    /\ tree.pc = "built"
    /\ tree' = PKD_unsupported(tree, "query_ball_tree")
    /\ WalkUntouched

QueryPairs ==
    /\ tree.pc = "built"
    /\ tree' = PKD_unsupported(tree, "query_pairs")
    /\ WalkUntouched

CountNeighbors ==
    /\ tree.pc = "built"
    /\ tree' = PKD_unsupported(tree, "count_neighbors")
    /\ WalkUntouched

SparseDistanceMatrix ==
    /\ tree.pc = "built"
    /\ tree' = PKD_unsupported(tree, "sparse_distance_matrix")
    /\ WalkUntouched

BulkOps == {"query_ball_tree", "query_pairs", "count_neighbors", "sparse_distance_matrix"}

TreeInit ==
    /\ walk = <<>>
    /\ rng = Unseeded
    /\ tape = NoTape
    /\ prev = <<>>
    /\ others = 0
    /\ tree = NoTree
    /\ widget = NoWidget

TreeNext ==
    \/ Construct
    \/ QueryBallPoint
    \/ Query
    \/ QueryBatch
    \/ QueryBallTree
    \/ QueryPairs
    \/ CountNeighbors
    \/ SparseDistanceMatrix

TreeSpec == TreeInit /\ [][TreeNext]_vars

(* ----------------- reference distances for the claims ----------------- *)
\* The distance along one axis to the nearest periodic image: the least
\* |d + k L| over the integers k (k within -3..3 suffices for |d| <= 3 L).
MinImage1(d, L) ==
    IF L > 0
    THEN CHOOSE v \in {Abs(d + k * L) : k \in -3..3} :
             \A u \in {Abs(d + k * L) : k \in -3..3} : v <= u
    ELSE Abs(d)

\* The squared minimum-image distance of points x and y in the box bounds.
MinImageDist2(x, y, bounds) ==
    MinImage1(x[1] - y[1], bounds[1]) * MinImage1(x[1] - y[1], bounds[1])
    + MinImage1(x[2] - y[2], bounds[2]) * MinImage1(x[2] - y[2], bounds[2])
    + MinImage1(x[3] - y[3], bounds[3]) * MinImage1(x[3] - y[3], bounds[3])

\* Twice the radius a query works with: the requested one, capped at half the
\* smallest periodic box length.
Capped2(self, r) == Min2(Twice(r), self.max_distance_upper_bound2)

\* The tree was built with one box length per dimension.
WellFormed(self) == self.pc = "built" /\ Len(self.bounds) = self.m

\* A single-point operation op on a well-formed tree has returned.
Answered(op) ==
    /\ WellFormed(tree)
    /\ tree.op = op
    /\ tree.err = ""

Range(seq) == {seq[j] : j \in 1..Len(seq)}

(* -------------------------------- C11 --------------------------------- *)
\* C11: query_ball_point(x, r) for one point returns exactly the indices of the
\* data points whose minimum-image distance to x is <= min(r, half the
\* smallest periodic box length).
C11_BallExact ==
    Answered("query_ball_point") =>
        Range(tree.res) =
            {i \in 0..(tree.n - 1) :
                4 * MinImageDist2(tree.args[1], tree.real_data[i + 1], tree.bounds)
                    <= Capped2(tree, tree.args[2]) * Capped2(tree, tree.args[2])}

(* -------------------------------- C13 --------------------------------- *)
\* C13: the list query_ball_point returns for one point holds no index twice.
C13_NoDuplicates ==
    Answered("query_ball_point") =>
        \A j, l \in 1..Len(tree.res) : j # l => tree.res[j] # tree.res[l]

(* -------------------------------- C17 --------------------------------- *)
\* C17: no index is built from a bounds vector whose length differs from the
\* dimension of the points.
C17_RejectsMismatch ==
    tree.pc = "built" => Len(tree.bounds) = tree.m

(* -------------------------------- C12 --------------------------------- *)
\* The layout of C12 along axis a: the query point x lies in the cell at
\* distance eps = x[a] < r from the lower face, the data point i lies in the
\* upper half of the cell at eps' = L - p[a] from the upper face, and the two
\* agree on the other axes.
FaceLayout(a, i) ==
    LET x == tree.args[1]
        p == tree.real_data[i + 1]
        L == tree.bounds[a]
    IN  /\ L > 0
        /\ 0 <= x[a] /\ x[a] < tree.args[2]
        /\ 2 * p[a] > L /\ p[a] < L
        /\ x[a] < p[a]
        /\ \A b \in 1..3 : b # a => x[b] = p[b]

\* eps + eps'
FaceGap(a, i) == tree.args[1][a] + tree.bounds[a] - tree.real_data[i + 1][a]

\* C12 as stated: the point across the face is found when eps + eps' < r and is
\* not found when eps + eps' >= r.
C12_FaceStrict ==
    Answered("query_ball_point") =>
        \A a \in 1..3, i \in 0..(tree.n - 1) :
            FaceLayout(a, i) =>
                (i \in Range(tree.res)) = (FaceGap(a, i) < tree.args[2])

\* C12 amended: the radius is inclusive and capped; the point across the face
\* is found exactly when eps + eps', or the direct distance L - eps - eps', is
\* <= min(r, half the smallest periodic box length).
C12_FaceInclusive ==
    Answered("query_ball_point") =>
        \A a \in 1..3, i \in 0..(tree.n - 1) :
            FaceLayout(a, i) =>
                (i \in Range(tree.res)) =
                    (2 * Min2(FaceGap(a, i), Abs(tree.bounds[a] - FaceGap(a, i)))
                        <= Capped2(tree, tree.args[2]))

\* Of two points across a face, the one at exactly eps + eps' = r was found
\* and the one farther than r was not.
C12_Witness ==
    /\ Answered("query_ball_point")
    /\ \E a \in 1..3, i \in 0..(tree.n - 1) :
          FaceLayout(a, i) /\ FaceGap(a, i) = tree.args[2] /\ i \in Range(tree.res)
    /\ \E a \in 1..3, i \in 0..(tree.n - 1) :
          FaceLayout(a, i) /\ FaceGap(a, i) > tree.args[2] /\ i \notin Range(tree.res)

(* -------------------------------- C14 --------------------------------- *)
\* The data points a nearest-neighbour query may return: those whose
\* minimum-image distance to x is below the capped bound.
Eligible(self, x, dub) ==
    {i \in 0..(self.n - 1) :
        4 * MinImageDist2(x, self.real_data[i + 1], self.bounds)
            < Capped2(self, dub) * Capped2(self, dub)}

\* C14: query(x, k) for one point returns k entries (d, i), nearest first; the
\* finite ones are the k nearest data points by minimum-image distance among
\* those closer than min(distance_upper_bound, half the smallest periodic box
\* length), each with its index in the data as given and none twice; the
\* other slots hold (inf, n), and an index is n exactly when its distance is
\* infinite.
C14_Nearest ==
    Answered("query") =>
        LET x == tree.args[1]
            k == tree.args[2]
            el == Eligible(tree, x, tree.args[3])
            res == tree.res
            D(i) == MinImageDist2(x, tree.real_data[i + 1], tree.bounds)
            finite == {j \in 1..Len(res) : res[j][1] # Infinity}
        IN  /\ Len(res) = k
            /\ \A j \in 1..(k - 1) : res[j][1] <= res[j + 1][1]
            /\ \A j \in 1..k : (res[j][2] = tree.n) = (res[j][1] = Infinity)
            /\ \A j \in finite : res[j][2] \in el /\ res[j][1] = D(res[j][2])
            /\ \A j, l \in finite : j # l => res[j][2] # res[l][2]
            /\ Cardinality(finite) = Min2(k, Cardinality(el))
            /\ \A i \in el : \A j \in 1..k : i \notin {res[l][2] : l \in finite} => D(i) >= res[j][1]

\* Two neighbours were returned, the nearer one found through an image and the
\* query point given outside the cell.
C14_Witness ==
    /\ Answered("query")
    /\ tree.args[2] = 2
    /\ tree.res[2][1] # Infinity
    /\ tree.res[1][1] < tree.res[2][1]
    /\ tree.res[1][1] < Dist2(tree.data[tree.res[1][2] + 1], RealX(tree.args[1], tree.bounds))
    /\ tree.args[1] # RealX(tree.args[1], tree.bounds)

(* -------------------------------- C15 --------------------------------- *)
\* C15: query on an array of several points returns, for each point, the result
\* of querying that point alone.
C15_BatchAsSingle ==
    (WellFormed(tree) /\ tree.op = "query_batch") =>
        /\ tree.err = ""
        /\ \A c \in 1..Len(tree.args[1]) :
              tree.res[c] = PKD_query(tree, tree.args[1][c], tree.args[2], tree.args[3]).res

(* -------------------------------- C16 --------------------------------- *)
\* what the index consists of
IndexOf(self) ==
    <<self.bounds, self.real_data, self.data, self.n, self.m, self.max_distance_upper_bound2>>

Canonical(w, x, L) ==
    IF L > 0
    THEN /\ 0 <= w /\ w < L
         /\ \E k \in -3..3 : w = x - k * L
         /\ w + (x \div L) * L = x
    ELSE w = x

LastRejected(s) ==
    /\ Started(s)
    /\ s.decisions # <<>>
    /\ s.decisions[Len(s.decisions)] = FALSE

\* The prefix the last attempt of s was checked on: the accepted coordinates
\* 0..count and the candidate of that attempt in slot count + 1.
TrialPrefix(s) ==
    [i \in 0..(s.count + 1) |->
        IF i = s.count + 1 THEN s.proposed[Len(s.proposed)].xyz ELSE s.coordinates[i]]

\* The box of the check, in hundredths.
TrialBox(s) == <<s.count * s.radius * 201, s.count * s.radius * 201, s.count * s.radius * 201>>

\* Coordinates i and j of the prefix are closer than the query distance,
\* directly or through a periodic image.
Overlap(s, i, j) ==
    WithinImage(TrialPrefix(s)[i], TrialPrefix(s)[j], s.radius - s.tolerance, TrialBox(s))

(* -------------------------------- C19 --------------------------------- *)
\* C19: bonded pairs never cause a rejection: a candidate of
\* HardSphereRandomWalk is rejected only if some pair (i, j) of the prefix that
\* is not bonded, |i - j| > 1, is closer than radius - tolerance.
C19_BondedExcluded ==
    \A w \in DOMAIN walk :
        (walk[w].impl = "hsrw" /\ LastRejected(walk[w])) =>
            \E i, j \in 0..(walk[w].count + 1) :
                (i - j > 1 \/ j - i > 1) /\ Overlap(walk[w], i, j)

(* -------------------------------- C20 --------------------------------- *)
\* chains one longer than MaxN, with a bond three times the radius
WideBondLengths == {6}

WideWalks ==
    {HSRW_init(MaxN + 1, b, 2, a[1], a[2], m, 1, 1) :
        b \in WideBondLengths, a \in AngleRanges, m \in Budgets}

InitGrow ==
    /\ walk \in [{1} -> WideWalks]
    /\ rng = Unseeded
    /\ tape = NoTape
    /\ prev = <<>>
    /\ others = 0
    /\ tree = NoTree
    /\ widget = NoWidget

GrowSpec == InitGrow /\ [][Next]_vars

\* C20: a pair of two previously accepted points never causes a rejection:
\* whenever a candidate of HardSphereRandomWalk is rejected, no two accepted
\* coordinates 0..count of the prefix are closer than the query distance in
\* the box of that check, so the check would pass for a candidate far enough
\* from all of them.
C20_CandidateOnly ==
    \A w \in DOMAIN walk :
        (walk[w].impl = "hsrw" /\ LastRejected(walk[w])) =>
            \A i, j \in 0..walk[w].count : i # j => ~Overlap(walk[w], i, j)

(* -------------------------------- C21 --------------------------------- *)
\* Coordinates i and j of the prefix are closer than the query distance in
\* open space, no periodic image involved.
TrueOverlap(s, i, j) ==
    Dist2(TrialPrefix(s)[i], TrialPrefix(s)[j])
        < (s.radius - s.tolerance) * (s.radius - s.tolerance)

\* C21: the box of side count * radius * 2.01 never wraps two points into a
\* false collision: whenever a candidate of HardSphereRandomWalk is rejected,
\* some pair of the prefix is at Euclidean distance below radius - tolerance.
C21_NoFalseCollision ==
    \A w \in DOMAIN walk :
        (walk[w].impl = "hsrw" /\ LastRejected(walk[w])) =>
            \E i, j \in 0..(walk[w].count + 1) : i # j /\ TrueOverlap(walk[w], i, j)

(* -------------------------------- C22 --------------------------------- *)
\* C22: between two iterations of the loop, after a return and after a
\* failure, every coordinate slot above count holds the zero vector: the slot
\* of a rejected candidate was reset, and no other slot above count was
\* written.
C22_ZeroFill ==
    \A w \in DOMAIN walk :
        Started(walk[w]) =>
            \A i \in (walk[w].count + 1)..(walk[w].N - 1) :
                walk[w].coordinates[i] = Zeros3

\* A candidate other than the zero vector was rejected, once with the loop
\* going on and once with the budget exhausted, slots above count remaining.
C22_Witness ==
    /\ walk[1].impl = "hsrw"
    /\ walk[1].pc = "failed"
    /\ Len(walk[1].decisions) >= 2
    /\ walk[1].decisions[Len(walk[1].decisions)] = FALSE
    /\ walk[1].decisions[1] = FALSE
    /\ walk[1].proposed[Len(walk[1].proposed)].xyz # Zeros3
    /\ walk[1].count + 1 <= walk[1].N - 1

(* -------------------------------- C23 --------------------------------- *)
\* One step of the call of w: the first move writes slot 1 and sets count to
\* 1; a later step does not lower count and changes no slot but count + 1.
FrontierStep(w) ==
    LET s == walk[w]
        t == walk'[w]
    IN  Started(t) =>
            /\ t.coordinates[0] = Zeros3
            /\ IF Started(s)
               THEN /\ t.count >= s.count
                    /\ \A i \in 0..(s.N - 1) :
                          i # s.count + 1 => t.coordinates[i] = s.coordinates[i]
               ELSE /\ t.count = 1
                    /\ \A i \in 2..(t.N - 1) : t.coordinates[i] = Zeros3

\* C23: during a run count never decreases, the only slot written is the
\* frontier slot count + 1 (slot 1 by the first move), so a coordinate count
\* has advanced past is never changed again, and coordinate 0 stays the
\* origin.
C23_FrontierOnly == [][\A w \in DOMAIN walk : FrontierStep(w)]_vars

\* A candidate was accepted, the next one rejected, and a later one accepted.
C23_Witness ==
    /\ walk[1].impl = "rw"
    /\ Started(walk[1])
    /\ Len(walk[1].decisions) >= 3
    /\ walk[1].decisions[1] = TRUE
    /\ walk[1].decisions[2] = FALSE
    /\ walk[1].decisions[3] = TRUE

(* -------------------------------- C24 --------------------------------- *)
\* One step of the call of w: the first move leaves count = 1 and attempts =
\* 0; an iteration of the loop, which proposes one candidate, adds 1 to
\* attempts and, when it accepts, 1 to count; in the state reached attempts is
\* the number of accepted attempts, count - 1, plus the number of rejections.
AccountingStep(w) ==
    LET s == walk[w]
        t == walk'[w]
    IN  Started(t) =>
            /\ Attempts(t) = (t.count - 1) + Rejections(t)
            /\ ~ Started(s) => (t.count = 1 /\ Attempts(t) = 0)
            /\ (Started(s) /\ Len(t.proposed) # Len(s.proposed)) =>
                  /\ Len(t.decisions) = Len(s.decisions) + 1
                  /\ Attempts(t) = Attempts(s) + 1
                  /\ t.decisions[Len(t.decisions)] = TRUE => t.count = s.count + 1
                  /\ t.decisions[Len(t.decisions)] = FALSE => t.count = s.count
            /\ (Started(s) /\ Len(t.proposed) = Len(s.proposed)) =>
                  (Attempts(t) = Attempts(s) /\ t.count = s.count)

\* C24: after the first move count = 1 and attempts = 0; every iteration adds
\* exactly 1 to attempts, an accept adds exactly 1 to count and a reject leaves
\* count alone, so attempts = (count - 1) + rejections throughout a fresh run.
C24_Accounting == [][\A w \in DOMAIN walk : AccountingStep(w)]_vars

\* Three attempts were made, accepted and rejected ones among them.
C24_Witness ==
    /\ Started(walk[1])
    /\ Attempts(walk[1]) = 3
    /\ walk[1].count >= 2
    /\ Rejections(walk[1]) >= 1

(* -------------------------------- C25 --------------------------------- *)
\* points inside the cell, on its faces, next to them and outside
ImagePoints == {<<x, y, z>> : x \in -1..6, y \in {0, 2, 3}, z \in {0, 1}}

\* boxes with three, two, one and no periodic axis
ImageBoxes == {b \in BoundsVectors : Len(b) = 3}

\* _gen_relevant_images(x, bounds, distance_upper_bound) for a point, a box and
\* a bound of these sets; the bound is carried doubled.
GenImages ==
    /\ tree.pc = "none"
    /\ \E x \in ImagePoints, bounds \in ImageBoxes, dub \in UpperBounds :
          tree' = [pc |-> "images", x |-> x, bounds |-> bounds, dub2 |-> Twice(dub),
                   xs |-> gen_relevant_images(x, bounds, Twice(dub))]
    /\ WalkUntouched

ImageSpec == TreeInit /\ [][GenImages]_vars

PeriodicAxes(bounds) == {i \in 1..Len(bounds) : bounds[i] > 0}

\* c is the image of x in the cell: within [0, L) and a whole number of box
\* lengths from x on the periodic axes, x itself on the others.
InCell(c, x, bounds) ==
    \A i \in 1..Len(x) :
        IF bounds[i] > 0
        THEN c[i] >= 0 /\ c[i] < bounds[i] /\ (c[i] - x[i]) % bounds[i] = 0
        ELSE c[i] = x[i]

\* The shifts along axis i the claim allows for canonical image c.
AxisShifts(c, bounds, dub2, i) ==
    IF bounds[i] <= 0 THEN {0}
    ELSE IF dub2 = Infinity THEN {bounds[i], 0, -bounds[i]}
    ELSE {0} \cup (IF 2 * c[i] < dub2 THEN {bounds[i]} ELSE {})
             \cup (IF 2 * (bounds[i] - c[i]) < dub2 THEN {-bounds[i]} ELSE {})

\* The images the claim describes: every combination of the allowed shifts.
ExpectedImages(c, bounds, dub2) ==
    {<<c[1] + s1, c[2] + s2, c[3] + s3>> :
        s1 \in AxisShifts(c, bounds, dub2, 1),
        s2 \in AxisShifts(c, bounds, dub2, 2),
        s3 \in AxisShifts(c, bounds, dub2, 3)}

\* C25: for a finite bound not above half the smallest periodic box length the
\* list starts with the canonical image and holds, once each, the combinations
\* of per-axis shifts: + length only if the wrapped coordinate is < bound,
\* - length only if length - coordinate is < bound, never both on one axis, so
\* at most 2^(periodic axes) images; for an unbounded bound it holds all
\* 3^(periodic axes) combinations; an axis that is not periodic adds nothing.
C25_Images ==
    tree.pc = "images" =>
        LET xs == tree.xs
            p == Cardinality(PeriodicAxes(tree.bounds))
            c == CHOOSE c \in Range(xs) : InCell(c, tree.x, tree.bounds)
        IN  /\ \E c0 \in Range(xs) : InCell(c0, tree.x, tree.bounds)
            /\ \A n \in 1..Len(xs), i \in 1..3 :
                  tree.bounds[i] <= 0 => xs[n][i] = tree.x[i]
            /\ tree.dub2 = Infinity =>
                  /\ Range(xs) = ExpectedImages(c, tree.bounds, Infinity)
                  /\ Len(xs) = 3 ^ p
                  /\ Cardinality(Range(xs)) = 3 ^ p
            /\ (tree.dub2 # Infinity /\ tree.dub2 <= MaxDistanceUpperBound2(tree.bounds)) =>
                  /\ xs[1] = c
                  /\ Range(xs) = ExpectedImages(c, tree.bounds, tree.dub2)
                  /\ Cardinality(Range(xs)) = Len(xs)
                  /\ Len(xs) <= 2 ^ p
                  /\ \A i \in PeriodicAxes(tree.bounds) :
                        ~ (tree.bounds[i] \in AxisShifts(c, tree.bounds, tree.dub2, i)
                           /\ -tree.bounds[i] \in AxisShifts(c, tree.bounds, tree.dub2, i))

\* A point outside the cell, with a finite bound of half the smallest box
\* length, got an upper image on one axis, a lower one on another and none on
\* the third.
C25_Witness ==
    /\ tree.pc = "images"
    /\ tree.bounds = <<4, 4, 4>>
    /\ tree.dub2 = 4
    /\ tree.x[1] < 0
    /\ Len(tree.xs) = 4
    /\ \E n \in 1..Len(tree.xs) : tree.xs[n][1] < 0
    /\ \E n \in 1..Len(tree.xs) : tree.xs[n][3] >= 4

(* -------------------------------- C26 --------------------------------- *)
\* Path.to_compound: one bead per entry of self.coordinates, one bond per
\* entry of self.bonds, between the beads of these indices.
Path_to_compound(self) ==
    [particles |-> [i \in 1..self.N |-> self.coordinates[i - 1]],
     bonds |-> self.bonds]

\* The caller of w, holding the HardSphereRandomWalk object, calls to_compound
\* on it when it has control: before generate, after generate has returned and
\* after it has raised.  seen keeps what the caller obtained and when; the
\* object is left as it is.
ToCompound(w) ==
    /\ walk[w].impl = "hsrw"
    /\ walk[w].pc \in {"init", "done", "failed"}
    /\ "seen" \notin DOMAIN walk[w]
    /\ walk' = [walk EXCEPT ![w] =
                   walk[w] @@ [seen |-> [at |-> walk[w].pc,
                                         compound |-> Path_to_compound(walk[w])]]]
    /\ UNCHANGED <<rng, tape, prev, others, tree, widget>>

ReadChain == \E w \in DOMAIN walk : ToCompound(w)

ObserveSpec == Init /\ [][Next \/ ReadChain]_vars

\* C26: what a caller obtains from a walk whose generate has not returned, in
\* particular from one whose generate has failed, is never a partially grown
\* chain: it has its N - 1 bonds, and no bead of it is an unplaced slot.
C26_OnlyComplete ==
    \A w \in DOMAIN walk :
        ("seen" \in DOMAIN walk[w] /\ walk[w].seen.at = "failed") =>
            /\ Len(walk[w].seen.compound.bonds) = walk[w].N - 1
            /\ \A i \in 2..walk[w].N : walk[w].seen.compound.particles[i] # Zeros3

(* -------------------------------- C27 --------------------------------- *)
\* generate is called a second time on the HardSphereRandomWalk object of w,
\* whose first generate has returned: the call starts at line 150 with the
\* fields as the first call left them.  prev keeps the object as it was.
GenerateAgain(w) ==
    /\ prev = <<>>
    /\ walk[w].impl = "hsrw"
    /\ walk[w].pc = "done"
    /\ prev' = <<walk[w]>>
    /\ walk' = [walk EXCEPT ![w].pc = "init"]
    /\ UNCHANGED <<rng, tape, others, tree, widget>>

Rerun == \E w \in DOMAIN walk : GenerateAgain(w)

RerunSpec == Init /\ [][Next \/ Rerun]_vars

\* C27: after a second generate on the same object, the first having
\* returned, the walk has N coordinates, the N - 1 bonds (k, k + 1) once each,
\* count = N - 1, and the coordinates of the first call.
C27_Idempotent ==
    (prev # <<>> /\ walk[1].pc = "done") =>
        /\ DOMAIN walk[1].coordinates = 0..(walk[1].N - 1)
        /\ walk[1].coordinates = prev[1].coordinates
        /\ walk[1].count = walk[1].N - 1
        /\ Len(walk[1].bonds) = walk[1].N - 1
        /\ \A k \in 0..(Len(walk[1].bonds) - 1) : walk[1].bonds[k + 1] = <<k, k + 1>>

(* -------------------------------- C28 --------------------------------- *)
\* random_walk called with the arguments of the HardSphereRandomWalk s.
Twin(s) ==
    RW_call(s.N, s.bond_length, s.radius, s.min_angle, s.max_angle, s.max_attempts, s.seed)

\* generate of the HardSphereRandomWalk of k has ended; its caller then calls
\* random_walk with the same arguments and seed.  prev keeps the ended walk.
CallTwin(k) ==
    /\ prev = <<>>
    /\ walk[k].impl = "hsrw"
    /\ Terminated(walk[k])
    /\ prev' = <<walk[k]>>
    /\ walk' = [w \in {1} |-> Twin(walk[k])]
    /\ UNCHANGED <<rng, tape, others, tree, widget>>

OtherImplementation == \E k \in DOMAIN walk : CallTwin(k)

\* HardSphereRandomWalk with tolerance 0
InitTwin ==
    /\ walk \in [{1} -> HSRW_walks(BondLengths, {<<1, 0>>, <<2, 0>>}, {1})]
    /\ rng = Unseeded
    /\ tape = NoTape
    /\ prev = <<>>
    /\ others = 0
    /\ tree = NoTree
    /\ widget = NoWidget

TwinSpec == InitTwin /\ [][Next \/ OtherImplementation]_vars

\* C28: with the same N, bond length, radius, angle range, budget and seed,
\* and tolerance 0, random_walk and HardSphereRandomWalk.generate propose the
\* same candidates, decide the same on each, and end with the same
\* coordinates, or both fail with the same count.
C28_Agree ==
    (prev # <<>> /\ walk[1].impl = "rw" /\ Terminated(walk[1])) =>
        /\ walk[1].proposed = prev[1].proposed
        /\ walk[1].decisions = prev[1].decisions
        /\ walk[1].pc = prev[1].pc
        /\ walk[1].pc = "done" => walk[1].coordinates = prev[1].coordinates
        /\ walk[1].pc = "failed" => walk[1].err = prev[1].err

(* -------------------------------- C29 --------------------------------- *)
\* whole numbers of box lengths a point is shifted by
BoxShifts == {-1, 2}

\* x shifted by k box lengths along axis a
Shifted(x, bounds, a, k) == [j \in 1..Len(x) |-> IF j = a THEN x[j] + k * bounds[a] ELSE x[j]]

\* The operation whose outcome tree holds, applied to tree t and point x.
SameOperation(t, x) ==
    IF tree.op = "query"
    THEN PKD_query(t, x, tree.args[2], tree.args[3])
    ELSE PKD_query_ball_point(t, x, tree.args[2])

MaxParticles == 2
MaxEvents == 3

ParticleNames == {"C", "H"}

\* Visualize.visualize(index); renders: compound.visualize() and viz.show()
\* return, or one of them raises.  Particle index is names[index + 1].
Visualize_visualize(self, index, renders) ==
    IF index >= 0
    THEN IF index >= Len(self.names)
         THEN [self EXCEPT !.index = index, !.err = "IndexError"]
         ELSE LET old_name == self.names[index + 1]
                  marked == [self EXCEPT !.index = index, !.names[index + 1] = "X"]
              IN  IF renders
                  THEN [marked EXCEPT !.names[index + 1] = old_name, !.err = ""]
                  ELSE [marked EXCEPT !.err = "raised"]
    ELSE [self EXCEPT !.index = index, !.err = IF renders THEN "" ELSE "raised"]

\* Visualize.__init__(compound): the slider and its observer, then visualize(-1)
Visualize_init(names, renders) ==
    Visualize_visualize([pc |-> "shown", names |-> names, original |-> names,
                         slider |-> -1, index |-> -1, err |-> "", events |-> 0],
                        -1, renders)

WidgetUntouched == UNCHANGED <<walk, rng, tape, prev, others, tree>>

\* Visualize(compound) for a compound of 1..MaxParticles particles
Display ==
    /\ widget.pc = "none"
    /\ \E n \in 1..MaxParticles :
         \E names \in [1..n -> ParticleNames], renders \in BOOLEAN :
            widget' = Visualize_init(names, renders)
    /\ WidgetUntouched

\* on_slider_change: the slider, of range -1..n_particles - 1, took a new value
SliderChange ==
    /\ widget.pc = "shown"
    /\ widget.events < MaxEvents
    /\ \E index \in -1..(Len(widget.names) - 1), renders \in BOOLEAN :
          /\ index # widget.slider
          /\ widget' = [Visualize_visualize(widget, index, renders) EXCEPT
                           !.slider = index, !.events = @ + 1]
    /\ WidgetUntouched

\* visualize(index) called directly, the index one past the last included
VisualizeIndex ==
    /\ widget.pc = "shown"
    /\ widget.events < MaxEvents
    /\ \E index \in 0..Len(widget.names), renders \in BOOLEAN :
          widget' = [Visualize_visualize(widget, index, renders) EXCEPT !.events = @ + 1]
    /\ WidgetUntouched

WidgetInit ==
    /\ walk = <<>>
    /\ rng = Unseeded
    /\ tape = NoTape
    /\ prev = <<>>
    /\ others = 0
    /\ tree = NoTree
    /\ widget = NoWidget

WidgetSpec == WidgetInit /\ [][Display \/ SliderChange \/ VisualizeIndex]_vars

(* -------------------------------- C30 --------------------------------- *)
\* C30: when visualize has finished, by returning or by raising, every
\* particle has the name it had before: after any sequence of slider changes
\* and calls the names of the compound are the original ones.
C30_NamesRestored ==
    widget.pc = "shown" => widget.names = widget.original

====
